---- MODULE Spec2Model ----
(***************************************************************************)
(* mpi_x11blit: a renderer process spawns num_workers worker processes;    *)
(* each worker reads its chunk of a raw RGB file, turns every 3 bytes into *)
(* an rgb_point and sends it to the renderer, which draws exactly          *)
(* BITMAP_WIDTH * BITMAP_HEIGHT received points.                           *)
(***************************************************************************)
EXTENDS Integers, Sequences, FiniteSets, TLC

\* ---- program constants and model bounds ----
\* the bitmap is 400 x 400 in the source; the model scales it down to 2 x 3
BITMAP_WIDTH == 2
BITMAP_HEIGHT == 3
BITMAP_BPP == 3
BITMAP_STRIDE == BITMAP_BPP * BITMAP_WIDTH
MaxWorkers == 4
MaxExtraRows == 1

NumPixels == BITMAP_WIDTH * BITMAP_HEIGHT
Ranks == 0 .. (MaxWorkers - 1)
\* sizes of the input file: every byte length up to MaxExtraRows rows more
\* than the bitmap has
InputLens == 0 .. ((BITMAP_HEIGHT + MaxExtraRows) * BITMAP_STRIDE)
\* decimal counts written in argv[1] that fit an int
WorkerCounts == -1 .. MaxWorkers

\* INT_MAX and INT_MIN of <limits.h>
INT_MAX == 2147483647
INT_MIN == -2147483647 - 1

\* A long of strtol as two 32-bit words: its value is hi * 2^32 + (lo mod
\* 2^32), with lo the low word read as a signed int.  digits: strtol has
\* consumed characters (endptr # str); erange: it has set errno to ERANGE.
Long(v) == [digits |-> TRUE, hi |-> IF v < 0 THEN -1 ELSE 0, lo |-> v,
            erange |-> FALSE]

\* argv[1] as seen through strtol: text without digits, the decimal counts,
\* "-4294967295" (a long that does not fit an int), and a decimal too large
\* for a long (strtol yields LONG_MAX and ERANGE)
Argv1Values ==
    { [digits |-> FALSE, hi |-> 0, lo |-> 0, erange |-> FALSE] }
    \cup { Long(v) : v \in WorkerCounts }
    \cup { [digits |-> TRUE, hi |-> -1, lo |-> 1, erange |-> FALSE] }
    \cup { [digits |-> TRUE, hi |-> INT_MAX, lo |-> -1, erange |-> TRUE] }

\* lines 339-351: parse_num_workers; the cast (int)result keeps the low word
parse_num_workers(a) ==
    IF ~a.digits THEN -1
    ELSE IF ( (a.hi = 0 /\ a.lo = INT_MAX) \/ (a.hi = -1 /\ a.lo = INT_MIN) )
            /\ a.erange
         THEN -1
         ELSE a.lo

\* line 401
InvalidWorkerCount(n) == n < 1

\* argv[3]: absent/empty, or a string of filter keys
FilterStrings == { << >>, <<"g", "i">>, <<"l", "x", "d">> }
Cells == (0 .. (BITMAP_WIDTH - 1)) \X (0 .. (BITMAP_HEIGHT - 1))

\* content of the input file: byte at offset k
SourceByte(k) == (k * 37 + 11) % 256

\* value of chunk_start / chunk_len before line 274 has run
NotComputed == -1

\* model bounds of the filter loop taken alone
MaxFilterLen == 2
FilterKeys == {"g", "i", "l", "d", "x"}
RedSamples == 0 .. 255
GreenSamples == {0, 85, 255}
BlueSamples == {0, 170}
CoordSamples == { <<0, 0>>, <<BITMAP_WIDTH - 1, BITMAP_HEIGHT - 1>> }

\* the point of a process that is not in the filter loop
NoPoint == [x |-> 0, y |-> 0, r |-> 0, g |-> 0, b |-> 0]

min(a, b) == IF a < b THEN a ELSE b

VARIABLES
    argv1,         \* main: what strtol makes of argv[1]
    num_workers,   \* main: num_workers, 0 before line 400 has run
    input_len,     \* size of the input file, in bytes
    filters,       \* the filter string handed to every worker
    cpc,           \* renderer: Idle, Spawning, Opening, Collecting, Complete, Failed
    received,      \* renderer: loop counter i of perform_rendering
    target,        \* window content: colour of each cell
    writes,        \* number of XDrawPoint calls that hit each cell
    wpc,           \* worker: none, start, checked, partitioned, sending, done, aborted
    chunk_start,   \* worker: chunk_start
    chunk_len,     \* worker: chunk_len (after line 277)
    off,           \* worker: loop counter off of the send loop
    chan,          \* per worker: points sent and not yet received
    failed_expr,   \* the operation whose failure aborted the workers' world
    point,         \* filter loop: struct rgb_point point
    raw,           \* filter loop: the point as decoded, before any filter
    fi             \* filter loop: loop counter i of line 311

vars == << argv1, num_workers, input_len, filters, cpc, received, target, writes,
           wpc, chunk_start, chunk_len, off, chan, failed_expr,
           point, raw, fi >>

\* ---- filters (lines 220-247) ----
filter_grayscale(p) ==
    LET avg == ((p.r + p.g + p.b) \div 3) % 256
    IN  [p EXCEPT !.r = avg, !.g = avg, !.b = avg]

filter_invert_CopyPaste(p) ==
    [p EXCEPT !.r = (255 - p.r) % 256, !.g = (255 - p.r) % 256,
              !.b = (255 - p.b) % 256]

filter_invert(p) ==
    [p EXCEPT !.r = (255 - p.r) % 256, !.g = (255 - p.g) % 256,
              !.b = (255 - p.b) % 256]

\* c + (0xff - c) * 0.25f is computed in float (exactly: the operands are
\* multiples of 1/4 below 2^24) and truncated on conversion to uint8_t
Lighten(c) == ((4 * c + (255 - c)) \div 4) % 256

filter_lighten(p) ==
    [p EXCEPT !.r = Lighten(p.r), !.g = Lighten(p.g), !.b = Lighten(p.b)]

Darken_ShadeOnly(c) == (c \div 4) % 256

\* c * (1.0 - 0.25f) is computed in double (exactly) and truncated on
\* conversion to uint8_t
Darken(c) == ((c * 3) \div 4) % 256

filter_darken(p) ==
    [p EXCEPT !.r = Darken(p.r), !.g = Darken(p.g), !.b = Darken(p.b)]

ApplyFilter_DefaultInvert(key, p) ==
    CASE key = "g" -> filter_grayscale(p)
      [] key = "l" -> filter_lighten(p)
      [] key = "d" -> filter_darken(p)
      [] OTHER -> filter_invert(p)

\* one iteration of the switch at lines 312-325
ApplyFilter(key, p) ==
    CASE key = "g" -> filter_grayscale(p)
      [] key = "i" -> filter_invert(p)
      [] key = "l" -> filter_lighten(p)
      [] key = "d" -> filter_darken(p)
      [] OTHER -> p

RECURSIVE ApplyFilters(_, _)
ApplyFilters(fs, p) ==
    IF fs = << >> THEN p ELSE ApplyFilters(Tail(fs), ApplyFilter(Head(fs), p))

\* ---- partitioning (lines 274-277) ----
ChunkLen0(len, size) == len \div size

ChunkStart_OneBack(len, size, rank) ==
    IF rank > 0 THEN ChunkLen0(len, size) * rank - BITMAP_BPP ELSE 0

ChunkStart(len, size, rank) == ChunkLen0(len, size) * rank

ChunkEnd(len, size, rank) ==
    min(len, ChunkStart(len, size, rank) + ChunkLen0(len, size)) - 1

ChunkLen(len, size, rank) ==
    ChunkEnd(len, size, rank) - ChunkStart(len, size, rank) + 1

\* ---- decoding (lines 297-308) ----
Strides_OneShort(clen) == (clen - 1) \div BITMAP_BPP

Strides(clen) == clen \div BITMAP_BPP

PointIndex_NoBase(cstart, o) == o

PointIndex(cstart, o) == (cstart \div BITMAP_BPP) + o

\* the point built by iteration o of the send loop of a worker whose chunk
\* starts at cstart: buf[k] is the file byte at cstart + k
MakePoint(cstart, o, fs) ==
    LET i == PointIndex(cstart, o)
        t == cstart + o * BITMAP_BPP
    IN  ApplyFilters(fs, [x |-> (i % BITMAP_WIDTH) % 65536,
                          y |-> (i \div BITMAP_WIDTH) % 65536,
                          r |-> SourceByte(t),
                          g |-> SourceByte(t + 1),
                          b |-> SourceByte(t + 2)])

\* ---- renderer loop condition (line 203) ----
RecvLoopCond_OffByOne(i) == i <= BITMAP_WIDTH * BITMAP_HEIGHT

RecvLoopCond(i) == i < BITMAP_WIDTH * BITMAP_HEIGHT

\* XDrawPoint: a point outside the window is clipped
InWindow(p) == p.x < BITMAP_WIDTH /\ p.y < BITMAP_HEIGHT

DrawColour(t, p) ==
    IF InWindow(p) THEN [t EXCEPT ![<<p.x, p.y>>] = <<p.r, p.g, p.b>>] ELSE t

DrawCount(w, p) ==
    IF InWindow(p) THEN [w EXCEPT ![<<p.x, p.y>>] = @ + 1] ELSE w

Init ==
    /\ argv1 \in Argv1Values
    /\ num_workers = 0
    /\ input_len \in InputLens
    /\ filters \in FilterStrings
    /\ cpc = "Idle"
    /\ received = 0
    /\ target = [c \in Cells |-> <<0, 0, 0>>]
    /\ writes = [c \in Cells |-> 0]
    /\ wpc = [w \in Ranks |-> "none"]
    /\ chunk_start = [w \in Ranks |-> NotComputed]
    /\ chunk_len = [w \in Ranks |-> NotComputed]
    /\ off = [w \in Ranks |-> 0]
    /\ chan = [w \in Ranks |-> << >>]
    /\ failed_expr = "none"
    /\ point = NoPoint
    /\ raw = NoPoint
    /\ fi = 0

\* ---- abort (handle_error, lines 94-111, and the inline aborts) ----
\* MPI_Abort(MPI_COMM_WORLD, ...) called by a worker ends every process of
\* the workers' world.  The renderer is not in that world; what happens to
\* it is left open by MPI, hence the choice `reach'.
WorkerAbort(expr, reach) ==
    /\ wpc' = [w \in Ranks |->
                  IF wpc[w] \in {"none", "done"} THEN wpc[w] ELSE "aborted"]
    /\ failed_expr' = expr
    /\ cpc' = IF reach THEN "Failed" ELSE cpc
    /\ UNCHANGED << argv1, point, raw, fi >>
    /\ UNCHANGED << num_workers, input_len, filters, received, target, writes,
                    chunk_start, chunk_len, off, chan >>

\* ---- renderer (main, lines 395-421; perform_rendering) ----
ParseArgs ==
    /\ cpc = "Idle"
    /\ num_workers' = parse_num_workers(argv1)
    /\ cpc' = IF InvalidWorkerCount(num_workers') THEN "Failed" ELSE "Spawning"
    /\ UNCHANGED << point, raw, fi >>
    /\ UNCHANGED << argv1, input_len, filters, received, target, writes,
                    wpc, chunk_start, chunk_len, off, chan, failed_expr >>

Spawn ==
    /\ cpc = "Spawning"
    /\ cpc' = "Opening"
    /\ wpc' = [w \in Ranks |-> IF w < num_workers THEN "start" ELSE "none"]
    /\ UNCHANGED << argv1, point, raw, fi >>
    /\ UNCHANGED << num_workers, input_len, filters, received, target, writes,
                    chunk_start, chunk_len, off, chan, failed_expr >>

SpawnFail ==
    /\ cpc = "Spawning"
    /\ cpc' = "Failed"
    /\ failed_expr' = "spawn"
    /\ UNCHANGED << argv1, point, raw, fi >>
    /\ UNCHANGED << num_workers, input_len, filters, received, target, writes,
                    wpc, chunk_start, chunk_len, off, chan >>

OpenDisplay ==
    /\ cpc = "Opening"
    /\ cpc' = "Collecting"
    /\ UNCHANGED << argv1, point, raw, fi >>
    /\ UNCHANGED << num_workers, input_len, filters, received, target, writes,
                    wpc, chunk_start, chunk_len, off, chan, failed_expr >>

\* XOpenDisplay fails: the renderer aborts its own world; the workers are
\* outside it, so whether they are ended too is a choice
OpenDisplayFail ==
    /\ cpc = "Opening"
    /\ cpc' = "Failed"
    /\ failed_expr' = "display"
    /\ \E reach \in BOOLEAN :
          wpc' = [w \in Ranks |->
                     IF reach /\ wpc[w] \notin {"none", "done"}
                     THEN "aborted" ELSE wpc[w]]
    /\ UNCHANGED << argv1, point, raw, fi >>
    /\ UNCHANGED << num_workers, input_len, filters, received, target, writes,
                    chunk_start, chunk_len, off, chan >>

\* one iteration of the receive loop: MPI_ANY_SOURCE takes the oldest point
\* of any worker that has one in flight
Recv(w) ==
    /\ cpc = "Collecting"
    /\ RecvLoopCond(received)
    /\ chan[w] # << >>
    /\ LET rcvd == Head(chan[w])
       IN  /\ target' = DrawColour(target, rcvd)
           /\ writes' = DrawCount(writes, rcvd)
    /\ chan' = [chan EXCEPT ![w] = Tail(@)]
    /\ received' = received + 1
    /\ UNCHANGED << argv1, point, raw, fi >>
    /\ UNCHANGED << num_workers, input_len, filters, cpc, wpc, chunk_start,
                    chunk_len, off, failed_expr >>

Finish ==
    /\ cpc = "Collecting"
    /\ ~RecvLoopCond(received)
    /\ cpc' = "Complete"
    /\ UNCHANGED << argv1, point, raw, fi >>
    /\ UNCHANGED << num_workers, input_len, filters, received, target, writes,
                    wpc, chunk_start, chunk_len, off, chan, failed_expr >>

\* ---- worker (read_data) ----
\* lines 256-272: open the file, get its size, check the length
OpenAndCheck(w) ==
    /\ wpc[w] = "start"
    /\ input_len % BITMAP_STRIDE = 0
    /\ wpc' = [wpc EXCEPT ![w] = "checked"]
    /\ UNCHANGED << argv1, point, raw, fi >>
    /\ UNCHANGED << num_workers, input_len, filters, cpc, received, target,
                    writes, chunk_start, chunk_len, off, chan, failed_expr >>

OpenFail(w) ==
    /\ wpc[w] = "start"
    /\ \E e \in {"open", "get_size"}, reach \in BOOLEAN : WorkerAbort(e, reach)

BadLength(w) ==
    /\ wpc[w] = "start"
    /\ input_len % BITMAP_STRIDE # 0
    /\ \E reach \in BOOLEAN : WorkerAbort("length", reach)

\* lines 274-281
Partition(w) ==
    /\ wpc[w] = "checked"
    /\ chunk_start' = [chunk_start EXCEPT
                          ![w] = ChunkStart(input_len, num_workers, w)]
    /\ chunk_len' = [chunk_len EXCEPT
                          ![w] = ChunkLen(input_len, num_workers, w)]
    /\ wpc' = [wpc EXCEPT ![w] = "partitioned"]
    /\ UNCHANGED << argv1, point, raw, fi >>
    /\ UNCHANGED << num_workers, input_len, filters, cpc, received, target,
                    writes, off, chan, failed_expr >>

\* lines 283-291
Read(w) ==
    /\ wpc[w] = "partitioned"
    /\ wpc' = [wpc EXCEPT ![w] = "sending"]
    /\ off' = [off EXCEPT ![w] = 0]
    /\ UNCHANGED << argv1, point, raw, fi >>
    /\ UNCHANGED << num_workers, input_len, filters, cpc, received, target,
                    writes, chunk_start, chunk_len, chan, failed_expr >>

ReadFail(w) ==
    /\ wpc[w] = "partitioned"
    /\ \E reach \in BOOLEAN : WorkerAbort("read", reach)

\* one iteration of the loop at lines 300-329
Send(w) ==
    /\ wpc[w] = "sending"
    /\ off[w] < Strides(chunk_len[w])
    /\ chan' = [chan EXCEPT
                   ![w] = Append(@, MakePoint(chunk_start[w], off[w], filters))]
    /\ off' = [off EXCEPT ![w] = @ + 1]
    /\ UNCHANGED << argv1, point, raw, fi >>
    /\ UNCHANGED << num_workers, input_len, filters, cpc, received, target,
                    writes, wpc, chunk_start, chunk_len, failed_expr >>

\* lines 331-332 and MPI_Finalize
Close(w) ==
    /\ wpc[w] = "sending"
    /\ ~(off[w] < Strides(chunk_len[w]))
    /\ wpc' = [wpc EXCEPT ![w] = "done"]
    /\ UNCHANGED << argv1, point, raw, fi >>
    /\ UNCHANGED << num_workers, input_len, filters, cpc, received, target,
                    writes, chunk_start, chunk_len, off, chan, failed_expr >>

Next ==
    \/ ParseArgs
    \/ Spawn
    \/ SpawnFail
    \/ OpenDisplay
    \/ OpenDisplayFail
    \/ Finish
    \/ \E w \in Ranks : Recv(w)
    \/ \E w \in Ranks : OpenAndCheck(w)
    \/ \E w \in Ranks : OpenFail(w)
    \/ \E w \in Ranks : BadLength(w)
    \/ \E w \in Ranks : Partition(w)
    \/ \E w \in Ranks : Read(w)
    \/ \E w \in Ranks : ReadFail(w)
    \/ \E w \in Ranks : Send(w)
    \/ \E w \in Ranks : Close(w)

Spec == Init /\ [][Next]_vars

\* Every process keeps running: a step of the program that stays possible
\* is eventually taken.  Failures are never forced.
Fairness ==
    /\ WF_vars(ParseArgs)
    /\ WF_vars(Spawn)
    /\ WF_vars(OpenDisplay)
    /\ WF_vars(Finish)
    /\ \A w \in Ranks :
          /\ WF_vars(Recv(w))
          /\ WF_vars(OpenAndCheck(w))
          /\ WF_vars(BadLength(w))
          /\ WF_vars(Partition(w))
          /\ WF_vars(Read(w))
          /\ WF_vars(Send(w))
          /\ WF_vars(Close(w))

\* the runs whose termination is examined: an input of the exact size, or
\* one triplet longer (which the length check refuses)
FairInit ==
    /\ Init
    /\ input_len \in { NumPixels * BITMAP_BPP, (NumPixels + 1) * BITMAP_BPP }

FairSpec == FairInit /\ [][Next]_vars /\ Fairness

\* ---- the filter loop of a worker taken alone (lines 310-326) ----
\* every filter string of at most n keys
RECURSIVE StringsUpTo(_)
StringsUpTo(n) ==
    IF n = 0 THEN { << >> }
    ELSE LET shorter == StringsUpTo(n - 1)
         IN  shorter \cup { Append(f, k) : f \in shorter, k \in FilterKeys }

\* a decoded point enters the loop with a filter string
FilterInit ==
    /\ filters \in StringsUpTo(MaxFilterLen)
    /\ raw \in { [x |-> c[1], y |-> c[2], r |-> rr, g |-> gg, b |-> bb] :
                    c \in CoordSamples, rr \in RedSamples,
                    gg \in GreenSamples, bb \in BlueSamples }
    /\ point = raw
    /\ fi = 0
    /\ argv1 = Long(1)
    /\ num_workers = 1
    /\ input_len = NumPixels * BITMAP_BPP
    /\ cpc = "Collecting"
    /\ received = 0
    /\ target = [c \in Cells |-> <<0, 0, 0>>]
    /\ writes = [c \in Cells |-> 0]
    /\ wpc = [w \in Ranks |-> IF w = 0 THEN "sending" ELSE "none"]
    /\ chunk_start = [w \in Ranks |-> NotComputed]
    /\ chunk_len = [w \in Ranks |-> NotComputed]
    /\ off = [w \in Ranks |-> 0]
    /\ chan = [w \in Ranks |-> << >>]
    /\ failed_expr = "none"

\* one iteration of the loop at line 311
FilterStep ==
    /\ fi < Len(filters)
    /\ point' = ApplyFilter(filters[fi + 1], point)
    /\ fi' = fi + 1
    /\ UNCHANGED << argv1, num_workers, input_len, filters, cpc, received,
                    target, writes, wpc, chunk_start, chunk_len, off, chan,
                    failed_expr, raw >>

FilterNext == FilterStep

FilterSpec == FilterInit /\ [][FilterNext]_vars

TypeOK ==
    /\ received \in 0 .. (NumPixels + 1)
    /\ \A w \in Ranks : off[w] \in 0 .. ((BITMAP_HEIGHT + MaxExtraRows) * BITMAP_WIDTH)

\* ---- helpers of the properties ----
Workers == { w \in Ranks : w < num_workers }

ValidSize == input_len = NumPixels * BITMAP_BPP

Terminated(w) == wpc[w] \in {"done", "aborted"}

AllPartitioned == \A w \in Workers : chunk_len[w] # NotComputed

InFlight == { w \in Ranks : chan[w] # << >> }

\* the renderer waits in MPI_Recv, no point is in flight and no worker is
\* left to send one
Blocked ==
    /\ cpc = "Collecting"
    /\ RecvLoopCond(received)
    /\ InFlight = {}
    /\ num_workers >= 1
    /\ \A w \in Workers : Terminated(w)

\* the point a single sequential decoder builds for pixel index i
SequentialPoint(i) ==
    ApplyFilters(filters, [x |-> i % BITMAP_WIDTH,
                           y |-> i \div BITMAP_WIDTH,
                           r |-> SourceByte(BITMAP_BPP * i),
                           g |-> SourceByte(BITMAP_BPP * i + 1),
                           b |-> SourceByte(BITMAP_BPP * i + 2)])

\* all points of worker rank, in the order it sends them
RECURSIVE PointsFrom(_, _)
PointsFrom(rank, o) ==
    IF o < Strides(ChunkLen(input_len, num_workers, rank))
    THEN << MakePoint(ChunkStart(input_len, num_workers, rank), o, filters) >>
            \o PointsFrom(rank, o + 1)
    ELSE << >>

\* the interleaving "all of worker 0, then all of worker 1, ..."
RECURSIVE RankOrder(_)
RankOrder(rank) ==
    IF rank < num_workers THEN PointsFrom(rank, 0) \o RankOrder(rank + 1)
    ELSE << >>

RECURSIVE DrawAll(_, _, _)
DrawAll(t, ps, n) ==
    IF n = 0 \/ ps = << >> THEN t
    ELSE DrawAll(DrawColour(t, Head(ps)), Tail(ps), n - 1)

\* the image the renderer ends with under the rank-order interleaving
ReferenceTarget ==
    DrawAll([c \in Cells |-> <<0, 0, 0>>], RankOrder(0), NumPixels)

\* ---- C1 ----
\* C1: the receive loop takes exactly BITMAP_WIDTH * BITMAP_HEIGHT points:
\* the counter never exceeds that number, and the renderer is past the loop
\* only with the counter equal to it.
C1_ExactlyNumPixels ==
    /\ received <= NumPixels
    /\ cpc = "Complete" => received = NumPixels

\* the renderer is past the loop while a further point is still in flight
C1_Witness == cpc = "Complete" /\ InFlight # {} /\ received = NumPixels

\* ---- C2 ----
\* C2: for given input, worker count and filters, the image the renderer
\* holds when it is past the loop is the same under every interleaving: it
\* is the image of the rank-order interleaving.
C2_SameImageAnyOrder == cpc = "Complete" => target = ReferenceTarget

\* ---- C3 ----
\* C3: with an input of exactly BITMAP_WIDTH * BITMAP_HEIGHT * 3 bytes, any
\* worker count >= 1 and no fault, the renderer is never left waiting for a
\* point that no worker will send.
C3_NeverStarved == (ValidSize /\ failed_expr = "none") => ~Blocked

\* ---- C4 ----
\* C4: for an input length that is a multiple of 3, the chunks of ranks
\* 0 .. num_workers-1 are contiguous from 0, do not overlap, and end at the
\* input length.
C4_PartitionsTile ==
    (input_len % BITMAP_BPP = 0 /\ num_workers >= 1 /\ AllPartitioned) =>
        /\ chunk_start[0] = 0
        /\ \A w \in Workers : w + 1 < num_workers =>
               chunk_start[w + 1] = chunk_start[w] + chunk_len[w]
        /\ chunk_start[num_workers - 1] + chunk_len[num_workers - 1]
               = input_len

\* ---- C5 ----
\* C5: when the input length is not a multiple of the worker count, every
\* rank but the last has floor(len / count) bytes and the last rank has
\* floor(len / count) + (len mod count) bytes, ending at byte len - 1.
C5_LastAbsorbsRemainder ==
    (num_workers >= 1 /\ input_len % num_workers # 0 /\ AllPartitioned) =>
        /\ \A w \in Workers : w + 1 < num_workers =>
               chunk_len[w] = input_len \div num_workers
        /\ chunk_len[num_workers - 1]
               = (input_len \div num_workers) + (input_len % num_workers)
        /\ chunk_start[num_workers - 1] + chunk_len[num_workers - 1] - 1
               = input_len - 1

\* ---- C6 ----
\* C6: with an input of exactly BITMAP_WIDTH * BITMAP_HEIGHT * 3 bytes, when
\* the renderer is past the loop every cell of the window has been drawn
\* exactly once.
C6_EveryCellOnce ==
    (cpc = "Complete" /\ ValidSize) => \A c \in Cells : writes[c] = 1

\* the renderer is past the loop after points of several workers
C6_Witness == cpc = "Complete" /\ ValidSize /\ num_workers > 1

\* ---- C7 ----
\* C7: every point a worker sends is the point a sequential decoder builds
\* for its coordinate: with i = y * BITMAP_WIDTH + x, its colour is the
\* filtered triplet of the input bytes 3i, 3i+1, 3i+2.
C7_SequentialDecode ==
    ValidSize => \A w \in Ranks : \A k \in 1 .. Len(chan[w]) :
        chan[w][k] = SequentialPoint(chan[w][k].y * BITMAP_WIDTH + chan[w][k].x)

\* ---- C8 ----
\* C8: when a worker's read of the input fails, the renderer is ended too:
\* it is not left waiting in the receive loop below its count with every
\* worker gone.
C8_ReadFailureEndsRenderer == (ValidSize /\ failed_expr = "read") => ~Blocked

\* ---- C9 ----
\* C9: for an input whose size is not BITMAP_WIDTH * BITMAP_HEIGHT * 3, no
\* worker computes a chunk and no worker sends a point.
C9_WrongSizeRejected ==
    ~ValidSize => \A w \in Ranks : chunk_len[w] = NotComputed /\ off[w] = 0

\* ---- C10 ----
\* C10: every point a worker sends lies in the window.
C10_PointInWindow ==
    \A w \in Ranks : \A k \in 1 .. Len(chan[w]) :
        /\ 0 <= chan[w][k].x /\ chan[w][k].x < BITMAP_WIDTH
        /\ 0 <= chan[w][k].y /\ chan[w][k].y < BITMAP_HEIGHT

\* ---- C11 ----
\* C11: with an input of exactly BITMAP_WIDTH * BITMAP_HEIGHT * 3 bytes,
\* every chunk starts at a multiple of 3 and every chunk but the last has a
\* length that is a multiple of 3.
C11_ChunksTripletAligned ==
    ValidSize => \A w \in Workers : chunk_len[w] # NotComputed =>
        /\ chunk_start[w] % BITMAP_BPP = 0
        /\ w + 1 < num_workers => chunk_len[w] % BITMAP_BPP = 0

\* ---- C13 ----
\* C13: a worker whose chunk is empty does not go on as if it had
\* succeeded: it never reaches the send loop or a normal exit.
C13_EmptyChunkFails ==
    \A w \in Workers :
        chunk_len[w] = 0 => wpc[w] \notin {"sending", "done"}

\* ---- C17 ----
\* pixel index of a point, from its coordinate
IndexOf(p) == p.y * BITMAP_WIDTH + p.x

\* C17: the pixel indices sent so far by different workers are pairwise
\* different, and each worker sends its own indices once, in ascending
\* order, also when the chunks are not aligned to 3 bytes.
C17_IndicesDisjoint ==
    /\ \A w1 \in Workers : \A w2 \in Workers : w1 # w2 =>
          \A o1 \in 0 .. (off[w1] - 1) : \A o2 \in 0 .. (off[w2] - 1) :
              PointIndex(chunk_start[w1], o1) # PointIndex(chunk_start[w2], o2)
    /\ \A w \in Workers : \A k \in 1 .. (Len(chan[w]) - 1) :
          IndexOf(chan[w][k]) < IndexOf(chan[w][k + 1])

\* two workers have sent points and the chunk of one of them is not aligned
C17_Witness ==
    \E w1 \in Workers : \E w2 \in Workers :
        /\ w1 # w2 /\ off[w1] > 0 /\ off[w2] > 1
        /\ chunk_start[w2] % BITMAP_BPP # 0

\* ---- C12 ----
\* the count written in argv[1] is a number below 1
RequestedBelowOne == argv1.digits /\ (argv1.hi < 0 \/ (argv1.hi = 0 /\ argv1.lo = 0))

\* C12: when the requested worker count is below 1, the renderer spawns no
\* worker and never enters the receive loop.
C12_BadCountRejected ==
    RequestedBelowOne =>
        /\ \A w \in Ranks : wpc[w] = "none"
        /\ cpc \in {"Idle", "Failed"}

\* ---- C14 ----
\* the transforms as the filter table states them
TableTransform(key, c) ==
    CASE key = "g" -> LET avg == (c[1] + c[2] + c[3]) \div 3
                      IN  <<avg, avg, avg>>
      [] key = "i" -> <<255 - c[1], 255 - c[2], 255 - c[3]>>
      [] key = "l" -> <<c[1] + ((255 - c[1]) \div 4),
                        c[2] + ((255 - c[2]) \div 4),
                        c[3] + ((255 - c[3]) \div 4)>>
      [] key = "d" -> <<(3 * c[1]) \div 4, (3 * c[2]) \div 4,
                        (3 * c[3]) \div 4>>
      [] OTHER -> c

\* left-to-right fold of the table over the first n keys of fs
RECURSIVE TableFold(_, _, _)
TableFold(fs, n, c) ==
    IF n = 0 THEN c ELSE TableTransform(fs[n], TableFold(fs, n - 1, c))

Colour(p) == <<p.r, p.g, p.b>>

\* C14: after the filter loop the colour of the point is the left-to-right
\* fold of the table transforms over the filter string, and every channel
\* is in 0..255.
C14_FiltersFoldTable ==
    fi = Len(filters) =>
        /\ Colour(point) = TableFold(filters, Len(filters), Colour(raw))
        /\ \A k \in 1 .. 3 : Colour(point)[k] \in 0 .. 255

\* a lighten followed by a darken (or the reverse) has run on a colour
C14_Witness ==
    /\ fi = Len(filters) /\ fi = 2
    /\ {filters[1], filters[2]} = {"l", "d"}
    /\ raw.r = 201

\* ---- C15 ----
\* C15: the filter string "ii" gives back the colour the point had.
C15_InvertTwice ==
    (filters = <<"i", "i">> /\ fi = 2) => Colour(point) = Colour(raw)

\* "ii" has run on a point whose channels differ
C15_Witness ==
    /\ filters = <<"i", "i">> /\ fi = 2
    /\ raw.r = 10 /\ raw.g = 85 /\ raw.b = 170

\* ---- C16 ----
KnownKey(k) == k \in {"g", "i", "l", "d"}

\* C16: the filter loop leaves x and y alone, and the keys other than
\* g, i, l, d change nothing: the result is that of the string without them.
C16_UnknownKeysSkipped ==
    fi = Len(filters) =>
        /\ point.x = raw.x /\ point.y = raw.y
        /\ point = ApplyFilters(SelectSeq(filters, KnownKey), raw)

\* a string with an unknown key after a known one has run on a point off
\* the origin
C16_Witness ==
    /\ fi = Len(filters) /\ fi = 2
    /\ filters = <<"g", "x">>
    /\ raw.x = BITMAP_WIDTH - 1 /\ raw.r = 7

\* ---- C18 ----
\* number of points sent so far by the ranks below n
RECURSIVE SentBelow(_)
SentBelow(n) == IF n <= 0 THEN 0 ELSE off[n - 1] + SentBelow(n - 1)

\* the renderer is in the receive loop of a run whose input has the exact
\* size and whose worker count divides the number of pixels
C18_Pre ==
    /\ cpc = "Collecting"
    /\ ValidSize
    /\ num_workers >= 1
    /\ NumPixels % num_workers = 0

\* exactly one point per coordinate was sent and received, every worker has
\* exited and the renderer is past the loop
C18_Post ==
    /\ cpc = "Complete"
    /\ received = NumPixels
    /\ SentBelow(num_workers) = NumPixels
    /\ \A c \in Cells : writes[c] = 1
    /\ \A w \in Workers : wpc[w] = "done"
    /\ InFlight = {}

\* C18: with an input of exactly BITMAP_WIDTH * BITMAP_HEIGHT * 3 bytes and
\* a worker count that divides BITMAP_WIDTH * BITMAP_HEIGHT, unless an
\* operation fails the run ends with one point per coordinate sent and
\* received, every worker exited and no point left in flight.
C18_DividingCountCompletes == C18_Pre ~> (C18_Post \/ failed_expr # "none")

\* such a run of several workers has ended
C18_Witness ==
    /\ C18_Post /\ ValidSize /\ failed_expr = "none"
    /\ num_workers > 1 /\ NumPixels % num_workers = 0
====
